---------------------------- MODULE Spec2Model ----------------------------
(***************************************************************************)
(* Model of the scorecard ingestor (data-ingestion/new_ingestor.py) and of *)
(* the read API (api/api.py).                                              *)
(*                                                                         *)
(* Numbers.  Python floats are modelled as integers counting thousandths   *)
(* (7.5 is 7500).  Every stored value of the model is a multiple of 1/8,   *)
(* so it is exact in binary floating point and so is every product and sum *)
(* the scoring formula builds from it.                                     *)
(*                                                                         *)
(* Strings.  A metric_value is text in the store.  It is modelled as the   *)
(* sequence of its characters, so that float(value) is a parser and        *)
(* str(value) a formatter.  Metric keys, sources and project names are     *)
(* only ever compared, and are TLA+ strings.                               *)
(***************************************************************************)
EXTENDS Integers, Sequences, FiniteSets, TLC

VARIABLES
    \* ---- the store (PostgreSQL) ----
    project_scans,   \* table project_scans: sequence indexed by scan_id
    scan_metadata,   \* table scan_metadata: set of committed rows
    clock,           \* the store's clock, the source of scan_date
    \* ---- the ingestor process ----
    pc,              \* where main / run_ingestion_workflow stands
    runs,            \* number of workflow runs started so far
    repo,            \* index of the repository the for-loop is at
    scan_id,         \* scan_id of the current repository's cycle (0: none)
    final_score,     \* the local final_score between calculation and update
    cpc,             \* per source client: where its thread stands
    measures,        \* per source client: the (key, value) pairs it fetched
    idx,             \* per source client: next pair of measures to store
    tx,              \* per source client: rows written, not yet committed
    tokens,          \* per source client: whether its token is configured
    ingest_config,   \* content of the ingestor's scoring_config.yaml
    escaped,         \* the exception that left run_ingestion_workflow
    faults,          \* the failures met in the current repository's cycle
    nfaults,         \* number of failures met so far, in both processes
    \* ---- the API process ----
    rpc,             \* where the request handler get_latest_scan stands
    rproject,        \* its project_name argument
    latest_scan,     \* the row its first query returned
    response,        \* the HTTP response of the last request, once it is made
    api_config,      \* content of the API's scoring_config.yaml
    \* ---- the scoring functions applied to drawn inputs ----
    sc_config,       \* a configuration
    sc_records,      \* the (key, value, source) rows of one scan
    sc_out,          \* result of the last scoring call
    sc_max_seen      \* every max_score returned so far for sc_config

store_vars == <<project_scans, scan_metadata, clock>>
orch_vars == <<pc, runs, repo, scan_id, final_score, escaped>>
client_vars == <<cpc, measures, idx, tx>>
env_vars == <<tokens, ingest_config, api_config>>
api_vars == <<rpc, rproject, latest_scan, response>>
score_vars == <<sc_config, sc_records, sc_out, sc_max_seen>>
fault_vars == <<faults, nfaults>>
vars == <<store_vars, orch_vars, client_vars, env_vars, fault_vars, api_vars, score_vars>>

-----------------------------------------------------------------------------
(* Bounds of the model. *)

\* Longest list of MetricDefinitions of a drawn configuration.
MaxDefs == 2
\* Number of scan records the store comes to hold.
MaxScans == 3
\* Number of failures (connection, query, transport, ...) injected in a behaviour.
MaxFaults == 1

-----------------------------------------------------------------------------
(* Python values. *)

\* None, and SQL NULL.
None == <<>>
\* A present value v of a nullable column.
Some(v) == <<v>>

\* dict.get(key, default)
Get(d, key, default) == IF key \in DOMAIN d THEN d[key] ELSE default

DigitChars == <<"0", "1", "2", "3", "4", "5", "6", "7", "8", "9">>

IsDigit(c) == \E i \in 1..10 : DigitChars[i] = c

DigitVal(c) == (CHOOSE i \in 1..10 : DigitChars[i] = c) - 1

RECURSIVE DigitsVal(_)
\* The natural number a sequence of digits writes.
DigitsVal(ds) ==
    IF ds = <<>> THEN 0
    ELSE 10 * DigitsVal(SubSeq(ds, 1, Len(ds) - 1)) + DigitVal(ds[Len(ds)])

\* The thousandths a sequence of at most three fraction digits writes.
FracVal(ds) ==
    CASE Len(ds) = 0 -> 0
      [] Len(ds) = 1 -> 100 * DigitsVal(ds)
      [] Len(ds) = 2 -> 10 * DigitsVal(ds)
      [] OTHER -> DigitsVal(SubSeq(ds, 1, 3))

\* float(s) for a decimal literal s: [ok |-> TRUE, val |-> thousandths], or
\* [ok |-> FALSE] where float raises ValueError.  Literals: an optional sign,
\* digits, an optional point and digits, at least one digit in all.
ParseFloat(s) ==
    LET neg == s # <<>> /\ s[1] = "-"
        body == IF s # <<>> /\ s[1] \in {"-", "+"} THEN Tail(s) ELSE s
        dots == {i \in 1..Len(body) : body[i] = "."}
        dot == IF dots = {} THEN Len(body) + 1 ELSE CHOOSE i \in dots : TRUE
        ip == SubSeq(body, 1, dot - 1)
        fp == SubSeq(body, dot + 1, Len(body))
        wellformed ==
            /\ Cardinality(dots) <= 1
            /\ Len(ip) + Len(fp) >= 1
            /\ \A i \in 1..Len(ip) : IsDigit(ip[i])
            /\ \A i \in 1..Len(fp) : IsDigit(fp[i])
        mag == 1000 * DigitsVal(ip) + FracVal(fp)
    IN  IF wellformed
        THEN [ok |-> TRUE, val |-> IF neg THEN 0 - mag ELSE mag]
        ELSE [ok |-> FALSE]

RECURSIVE NatStr(_)
\* The decimal digits of a natural number.
NatStr(n) ==
    IF n < 10 THEN <<DigitChars[n + 1]>>
    ELSE Append(NatStr(n \div 10), DigitChars[(n % 10) + 1])

RECURSIVE StripZeros(_)
\* Fraction digits without trailing zeros, one digit at least.
StripZeros(ds) ==
    IF Len(ds) > 1 /\ ds[Len(ds)] = "0"
    THEN StripZeros(SubSeq(ds, 1, Len(ds) - 1))
    ELSE ds

\* str(v) of a JSON number: [int |-> n] is the Python int n, [float |-> t]
\* the Python float of t thousandths ("6" and "6.0" are different texts).
PyStr(v) ==
    IF "int" \in DOMAIN v
    THEN (IF v.int < 0 THEN <<"-">> ELSE <<>>)
         \o NatStr(IF v.int < 0 THEN 0 - v.int ELSE v.int)
    ELSE LET t == IF v.float < 0 THEN 0 - v.float ELSE v.float
             f == t % 1000
             f3 == <<DigitChars[(f \div 100) + 1],
                     DigitChars[((f \div 10) % 10) + 1],
                     DigitChars[(f % 10) + 1]>>
         IN  (IF v.float < 0 THEN <<"-">> ELSE <<>>)
             \o NatStr(t \div 1000) \o <<".">> \o StripZeros(f3)

\* round(x, 2): to the nearest hundredth, an exact tie to the even one.
Round2(x) ==
    LET q == x \div 10
        r == x % 10
    IN  IF r < 5 THEN 10 * q
        ELSE IF r > 5 THEN 10 * (q + 1)
        ELSE IF q % 2 = 0 THEN 10 * q ELSE 10 * (q + 1)

Max(a, b) == IF a >= b THEN a ELSE b

-----------------------------------------------------------------------------
(* Scoring configuration (scoring_config.yaml). *)

Sources == {"sonarqube", "openssf"}

MetricTypes == {"direct", "direct_scaled", "inverted_scaled", "inverted_percentage"}

\* The optional parameters given to the sonarqube definitions: those of the
\* worked scenario.
SonarParams == [scale_factor |-> 1, base_max_value |-> 10, max_score |-> 10]

\* The optional parameters given to the openssf definitions.
ScorecardParams == [scale_factor |-> 2, base_max_value |-> 20, max_score |-> 10]

\* A MetricDefinition is a YAML mapping: a function from the keys that are
\* present.  name, source, key, weight and type are always given.
BareDef(source, key, weight, type) ==
    [name |-> key, source |-> source, key |-> key, weight |-> weight, type |-> type]

FullDef(source, key, weight, type, params) ==
    BareDef(source, key, weight, type) @@ params

\* The definitions configurations are drawn from: sonarqube/coverage with
\* weight 2 and openssf/overall_score with weight 1, of every type, with the
\* optional parameters given or absent.
MetricDefs ==
    LET slots == { <<"sonarqube", "coverage", 2, SonarParams>>,
                   <<"openssf", "overall_score", 1, ScorecardParams>> }
    IN  { BareDef(s[1], s[2], s[3], t) : s \in slots, t \in MetricTypes }
        \cup { FullDef(s[1], s[2], s[3], t, s[4]) : s \in slots, t \in MetricTypes }

RECURSIVE SeqsUpTo(_, _)
\* Every sequence over S of length at most n.
SeqsUpTo(S, n) ==
    IF n = 0 THEN {<<>>}
    ELSE LET shorter == SeqsUpTo(S, n - 1)
         IN  shorter \cup { Append(q, x) : q \in shorter, x \in S }

\* A loaded scoring_config.yaml.
Config(metrics) ==
    [description |-> "score", calculation_logic |-> "weighted sum", metrics |-> metrics]

\* The configurations the scoring functions are applied to; None is the file
\* that cannot be loaded.
ScoreConfigs == { Config(m) : m \in SeqsUpTo(MetricDefs, MaxDefs) } \cup {None}

\* The configuration of the worked scenario.
ScenarioConfig ==
    Config(<< FullDef("sonarqube", "coverage", 2, "direct_scaled", SonarParams),
              FullDef("openssf", "overall_score", 1, "inverted_percentage", ScorecardParams) >>)

-----------------------------------------------------------------------------
(* calculate_final_score: the formula, on the rows it fetched. *)

\* A row of "SELECT metric_key, metric_value, metric_source".
Row(key, value, source) ==
    [metric_key |-> key, metric_value |-> value, metric_source |-> source]

\* A parse that takes a value float() rejects as the number 0.
metrics_by_source_zero(records) ==
    { [source |-> r.metric_source, key |-> r.metric_key,
       value |-> IF ParseFloat(r.metric_value).ok
                 THEN ParseFloat(r.metric_value).val ELSE 0] : r \in records }

\* metrics_by_source: the rows whose value float() accepts, parsed.
metrics_by_source(records) ==
    { [source |-> r.metric_source, key |-> r.metric_key,
       value |-> ParseFloat(r.metric_value).val] :
        r \in {x \in records : ParseFloat(x.metric_value).ok} }

\* metrics_by_source.get(source, {}).get(key, -1)
raw_value(records, metric_def) ==
    LET hits == {m \in metrics_by_source(records) :
                    m.source = metric_def.source /\ m.key = metric_def.key}
    IN  IF hits = {} THEN -1000 ELSE (CHOOSE m \in hits : TRUE).value

\* metric_def.get('max_score', 100) of the ingestor
ingest_max_score(metric_def) == Get(metric_def, "max_score", 100)

\* metric_def.get('scale_factor', 1) of the ingestor
ingest_scale_factor(metric_def) == Get(metric_def, "scale_factor", 1)

\* metric_score of one definition for a raw value (both in thousandths)
metric_score(metric_def, raw) ==
    CASE metric_def.type = "direct" -> raw
      [] metric_def.type = "direct_scaled" -> raw * ingest_scale_factor(metric_def)
      [] metric_def.type = "inverted_scaled" ->
            Max(0, 1000 * ingest_max_score(metric_def)
                   - raw * ingest_scale_factor(metric_def))
      [] metric_def.type = "inverted_percentage" ->
            1000 * ingest_max_score(metric_def) - raw
      [] OTHER -> 0

\* Whether the loop skips the definition ("if raw_value == -1: continue").
skipped(records, metric_def) == raw_value(records, metric_def) = -1000

RECURSIVE total_score(_, _)
\* The loop over metrics_config: total_score += metric_score * weight
total_score(records, metrics_config) ==
    IF metrics_config = <<>> THEN 0
    ELSE LET metric_def == Head(metrics_config)
             rest == total_score(records, Tail(metrics_config))
         IN  IF skipped(records, metric_def) THEN rest
             ELSE metric_score(metric_def, raw_value(records, metric_def))
                    * metric_def.weight + rest

\* calculate_final_score without the early return for a scan with no rows: the
\* configuration is loaded whatever was fetched.
score_of_records_without_fallback(records, config) ==
    IF config = None THEN [exc |-> "FileNotFoundError", value |-> 0]
    ELSE [exc |-> "", value |-> Round2(total_score(records, config.metrics))]

\* calculate_final_score once the rows are fetched: [exc, value].
score_of_records(records, config) ==
    IF records = {} THEN [exc |-> "", value |-> 0]
    ELSE IF config = None THEN [exc |-> "FileNotFoundError", value |-> 0]
    ELSE [exc |-> "", value |-> Round2(total_score(records, config.metrics))]

-----------------------------------------------------------------------------
(* calculate_max_score and the part of get_latest_scan that calls it. *)

\* metric.get('max_score', 0) of the API
api_max_score(metric) == Get(metric, "max_score", 0)

\* metric.get('scale_factor', 1) of the API
api_scale_factor(metric) == Get(metric, "scale_factor", 1)

\* metric_max_score of one definition (thousandths)
metric_max_score(metric) ==
    LET weight == Get(metric, "weight", 1)
    IN  CASE metric.type = "direct_scaled" ->
                1000 * Get(metric, "base_max_value", 10) * api_scale_factor(metric) * weight
          [] metric.type = "direct" -> 1000 * 100 * weight
          [] metric.type \in {"inverted_scaled", "inverted_percentage"} ->
                1000 * api_max_score(metric) * weight
          [] OTHER -> 0

RECURSIVE sum_max_score(_)
sum_max_score(metrics) ==
    IF metrics = <<>> THEN 0
    ELSE metric_max_score(Head(metrics)) + sum_max_score(Tail(metrics))

calculate_max_score(scoring_config) ==
    IF scoring_config = None \/ "metrics" \notin DOMAIN scoring_config THEN 0
    ELSE sum_max_score(scoring_config.metrics)

\* A max_score that counts only the definitions the scan has a row for.
response_max_score_matched(scoring_config, metadata_records) ==
    IF scoring_config = None THEN 0
    ELSE sum_max_score(SelectSeq(scoring_config.metrics,
                                 LAMBDA d : ~skipped(metadata_records, d)))

\* latest_scan['max_score'] as get_latest_scan sets it, with metadata_records
\* and scoring_config in scope.
response_max_score(scoring_config, metadata_records) ==
    IF scoring_config # None THEN calculate_max_score(scoring_config) ELSE 0

-----------------------------------------------------------------------------
(* Inputs of the scoring functions. *)

\* Texts a metric_value holds: "7.5", "-1", "abc", "0.125"; "6", "-1.0".
CoverageTexts ==
    { <<"7", ".", "5">>, <<"-", "1">>, <<"a", "b", "c">>, <<"0", ".", "1", "2", "5">> }

OverallTexts == { <<"6">>, <<"-", "1", ".", "0">> }

\* The rows of one scan: at most one per (key, source), as the store keeps them.
ScoreRecordSets ==
    { a \cup b :
        a \in {{}} \cup { {Row("coverage", v, "sonarqube")} : v \in CoverageTexts },
        b \in {{}} \cup { {Row("overall_score", v, "openssf")} : v \in OverallTexts } }

\* Whether some definition of the configuration has no number among the rows.
SomeMissing(config, records) ==
    config # None /\ \E i \in 1..Len(config.metrics) : skipped(records, config.metrics[i])

-----------------------------------------------------------------------------
(* Initial states. *)

\* The ingestor and the API before main starts, on an empty store.
SystemInit ==
    /\ project_scans = <<>>
    /\ scan_metadata = {}
    /\ clock = 0
    /\ pc = "main"
    /\ runs = 0
    /\ repo = 0
    /\ scan_id = 0
    /\ final_score = 0
    /\ cpc = [c \in Sources |-> "idle"]
    /\ measures = [c \in Sources |-> <<>>]
    /\ idx = [c \in Sources |-> 1]
    /\ tx = [c \in Sources |-> {}]
    /\ escaped = None
    /\ faults = {}
    /\ nfaults = 0
    /\ rpc = "idle"
    /\ rproject = ""
    /\ latest_scan = None
    /\ response = None

\* No scoring call made yet.
ScoreIdle ==
    /\ sc_out = [op |-> "none", exc |-> "", value |-> 0]
    /\ sc_max_seen = {}

-----------------------------------------------------------------------------
(* The scoring functions applied to drawn inputs. *)

ScoreInit ==
    /\ SystemInit
    /\ tokens = [c \in Sources |-> TRUE]
    /\ ingest_config = None
    /\ api_config = None
    /\ sc_config \in ScoreConfigs
    /\ sc_records \in ScoreRecordSets
    /\ ScoreIdle

\* calculate_final_score on the rows sc_records with the configuration sc_config.
ScoreActual ==
    /\ sc_out' = [op |-> "final"] @@ score_of_records(sc_records, sc_config)
    /\ UNCHANGED <<sc_config, sc_records, sc_max_seen>>

\* The max_score get_latest_scan reports for a scan with the rows sc_records.
ScoreMaximum ==
    LET m == response_max_score(sc_config, sc_records)
    IN  /\ sc_out' = [op |-> "max", exc |-> "", value |-> m]
        /\ sc_max_seen' = sc_max_seen \cup
              { [max |-> m, missing |-> SomeMissing(sc_config, sc_records)] }
        /\ UNCHANGED <<sc_config, sc_records>>

\* The call has returned and the store comes to hold other rows (another
\* scan, a re-collection) before the next call.
ScoreStore ==
    /\ \E c \in Sources :
          sc_records' \in
              { rs \in ScoreRecordSets \ {sc_records} :
                  \A r \in (rs \ sc_records) \cup (sc_records \ rs) : r.metric_source = c }
    /\ sc_out' = [op |-> "none", exc |-> "", value |-> 0]
    /\ UNCHANGED <<sc_config, sc_max_seen>>

ScoreNext ==
    /\ (ScoreActual \/ ScoreMaximum \/ ScoreStore)
    /\ UNCHANGED <<store_vars, orch_vars, client_vars, env_vars, fault_vars, api_vars>>

SpecScore == ScoreInit /\ [][ScoreNext]_vars

-----------------------------------------------------------------------------
(* The scoring policy as the specification states it (section 4.1). *)

\* A parameter of a definition, with the specification's default when absent.
SpecParam(d, k) ==
    Get(d, k, CASE k = "scale_factor" -> 1
                [] k = "max_score" -> 0
                [] k = "base_max_value" -> 10)

\* The table's actual contribution of definition d for the raw value raw.
TableContribution(d, raw) ==
    CASE d.type = "direct" -> raw * d.weight
      [] d.type = "direct_scaled" -> raw * SpecParam(d, "scale_factor") * d.weight
      [] d.type = "inverted_scaled" ->
            Max(0, 1000 * SpecParam(d, "max_score") - raw * SpecParam(d, "scale_factor"))
                * d.weight
      [] d.type = "inverted_percentage" ->
            (1000 * SpecParam(d, "max_score") - raw) * d.weight

\* The table's theoretical maximum of definition d.
TableMaximum(d) ==
    CASE d.type = "direct" -> 1000 * 100 * d.weight
      [] d.type = "direct_scaled" ->
            1000 * SpecParam(d, "base_max_value") * SpecParam(d, "scale_factor") * d.weight
      [] d.type \in {"inverted_scaled", "inverted_percentage"} ->
            1000 * SpecParam(d, "max_score") * d.weight

\* The numbers the rows hold for definition d's (source, key).
NumbersFor(records, d) ==
    { ParseFloat(r.metric_value).val :
        r \in { x \in records : /\ x.metric_source = d.source
                                /\ x.metric_key = d.key
                                /\ ParseFloat(x.metric_value).ok } }

HasNumber(records, d) == NumbersFor(records, d) # {}

NumberFor(records, d) == CHOOSE v \in NumbersFor(records, d) : TRUE

RECURSIVE SumOfModelContributions(_, _)
\* Sum, over the definitions with a numeric row, of the contribution the
\* ingestor's per-type formula gives.
SumOfModelContributions(records, defs) ==
    IF defs = <<>> THEN 0
    ELSE (IF HasNumber(records, Head(defs))
          THEN metric_score(Head(defs), NumberFor(records, Head(defs))) * Head(defs).weight
          ELSE 0)
         + SumOfModelContributions(records, Tail(defs))

RECURSIVE SumOfTableContributions(_, _)
\* Sum, over the definitions with a numeric row, of the table's contribution.
SumOfTableContributions(records, defs) ==
    IF defs = <<>> THEN 0
    ELSE (IF HasNumber(records, Head(defs))
          THEN TableContribution(Head(defs), NumberFor(records, Head(defs)))
          ELSE 0)
         + SumOfTableContributions(records, Tail(defs))

RECURSIVE SumOfTableMaxima(_)
\* Sum of the table's maximum over all the definitions.
SumOfTableMaxima(defs) ==
    IF defs = <<>> THEN 0
    ELSE TableMaximum(Head(defs)) + SumOfTableMaxima(Tail(defs))

\* The configuration with every absent scale_factor and max_score written out
\* with the documented default (1 and 0).
WithDefaults(config) ==
    [config EXCEPT !.metrics =
        [i \in 1..Len(config.metrics) |->
            config.metrics[i]
              @@ [scale_factor |-> 1, max_score |-> 0]]]

\* Every definition of the configuration gives all its optional parameters.
AllParamsGiven(config) ==
    \A i \in 1..Len(config.metrics) :
        {"scale_factor", "max_score", "base_max_value"} \subseteq DOMAIN config.metrics[i]

\* An actual score was computed for sc_records under a loaded configuration.
ActualComputed == sc_out.op = "final" /\ sc_out.exc = "" /\ sc_config # None

\* A maximum was computed under a loaded configuration.
MaximumComputed == sc_out.op = "max" /\ sc_config # None

-----------------------------------------------------------------------------
(* Claims about the scoring functions, checked under SpecScore. *)

\* C7: the actual score is the (rounded) sum of the contributions of exactly
\* the definitions whose (source, key) has a numeric row, whatever the number
\* is, and the maximum counts every definition.
C7_ActualSumsEveryNumericRow ==
    /\ ActualComputed =>
          sc_out.value = Round2(SumOfModelContributions(sc_records, sc_config.metrics))
    /\ MaximumComputed =>
          sc_out.value = SumOfTableMaxima(sc_config.metrics)

\* C8: both paths use 0 for an absent max_score and 1 for an absent
\* scale_factor: a result is the one the same path gives with the defaults
\* written out in the configuration.
C8_SameDefaultsOnBothPaths ==
    /\ ActualComputed =>
          sc_out.value = score_of_records(sc_records, WithDefaults(sc_config)).value
    /\ MaximumComputed =>
          sc_out.value = calculate_max_score(WithDefaults(sc_config))

\* C9: with all parameters given, the actual score is the (rounded) sum of the
\* table's contributions for every numeric raw value, the maximum is the sum
\* of the table's maxima, and the worked scenario gives 19.0 and 30.
C9_PerTypeTable ==
    /\ (ActualComputed /\ AllParamsGiven(sc_config)) =>
          sc_out.value = Round2(SumOfTableContributions(sc_records, sc_config.metrics))
    /\ (MaximumComputed /\ AllParamsGiven(sc_config)) =>
          sc_out.value = SumOfTableMaxima(sc_config.metrics)
    /\ (/\ sc_config = ScenarioConfig
        /\ sc_records = { Row("coverage", <<"7", ".", "5">>, "sonarqube"),
                          Row("overall_score", <<"6">>, "openssf") }) =>
          /\ sc_out.op = "final" => sc_out.value = 19000
          /\ sc_out.op = "max" => sc_out.value = 30000

\* C10: the maximum is the sum over all definitions of the configuration (0
\* when it cannot be loaded) and every read under the same configuration
\* returns the same max_score, whatever rows the store holds.
C10_MaxDependsOnlyOnConfig ==
    /\ \A a \in sc_max_seen : \A b \in sc_max_seen : a.max = b.max
    /\ sc_out.op = "max" =>
          sc_out.value = IF sc_config = None THEN 0
                         ELSE SumOfTableMaxima(sc_config.metrics)

\* C10 witness: under one configuration with a positive maximum, a read of a
\* scan that lacks a defined metric and a read of a scan that has them all.
C10_Witness ==
    \E a \in sc_max_seen : \E b \in sc_max_seen :
        a.missing /\ ~b.missing /\ a.max > 0 /\ sc_out.op = "max"

-----------------------------------------------------------------------------
(* The environment of the ingestor and of the API. *)

\* repositories.txt: each repository URL as its "/"-separated parts.
Repositories ==
    << <<"github.com", "acme", "alpha">>, <<"github.com", "acme", "beta">> >>

\* repo_url.split('/')[-1]
project_name_of(repo_url) == repo_url[Len(repo_url)]

Projects == { project_name_of(Repositories[i]) : i \in 1..Len(Repositories) }

\* A measure of the SonarQube answer.
Measure(metric, value) == [metric |-> metric, value |-> value]

\* What /api/measures/component answers ('measures'): coverage "7.5", or
\* coverage twice, "0.125" and then "7.5".
SonarAnswers ==
    { << Measure("coverage", <<"7", ".", "5">>) >>,
      << Measure("coverage", <<"0", ".", "1", "2", "5">>),
         Measure("coverage", <<"7", ".", "5">>) >> }

\* What the scorecard command prints (parsed JSON): the score 6 and the
\* inconclusive check Maintained = -1.
ScorecardOutputs ==
    { [score |-> [int |-> 6],
       checks |-> << [name |-> "Maintained", score |-> [int |-> -1]] >>] }

\* The (key, value) pairs collect_sonarqube_metrics stores, in order.
sonarqube_pairs(answer) ==
    [i \in 1..Len(answer) |-> <<answer[i].metric, answer[i].value>>]

\* The (key, value) pairs collect_openssf_metrics stores, in order;
\* store_metadata_record writes str(value).
openssf_pairs(scorecard_data) ==
    << <<"overall_score", PyStr(scorecard_data.score)>> >>
    \o [i \in 1..Len(scorecard_data.checks) |->
          <<scorecard_data.checks[i].name, PyStr(scorecard_data.checks[i].score)>>]

\* The scoring configurations the two processes may find on disk.
DeployedConfigs == {ScenarioConfig, None}

\* One more failure can be injected.
CanFail == nfaults < MaxFaults

\* A failure of kind `kind` met in function `in`.
Fault(in, kind) == [in |-> in, kind |-> kind]

\* No failure is met in this step.
NoFault == UNCHANGED <<faults, nfaults>>

\* A failure is met in this step of the current cycle, and logged.
Fails(in, kind) ==
    /\ CanFail
    /\ nfaults' = nfaults + 1
    /\ faults' = faults \cup {Fault(in, kind)}

\* A failure is met in this step, the first of a new cycle.
FailsFirst(in, kind) ==
    /\ CanFail
    /\ nfaults' = nfaults + 1
    /\ faults' = {Fault(in, kind)}

\* A failure is met in this step of the API.
ApiFails ==
    /\ CanFail
    /\ nfaults' = nfaults + 1
    /\ UNCHANGED faults

\* The thread states in which a source client has ended.
Finished == {"skipped", "noconn", "failed", "raised", "committed"}

\* An exception that propagates out of main.
Exception(exc, from) == [exc |-> exc, from |-> from]

-----------------------------------------------------------------------------
(* The store. *)

\* INSERT INTO project_scans (project_name) ... RETURNING scan_id
inserted_scan(table, project_name, now) ==
    [scan_id |-> Len(table) + 1, project_name |-> project_name,
     scan_date |-> now, final_score |-> None]

\* A row of scan_metadata.
MetaRow(scan, key, value, source) ==
    [scan_id |-> scan, metric_key |-> key, metric_value |-> value, metric_source |-> source]

\* Two rows with the same (scan_id, metric_key, metric_source).
SameTriple(a, b) ==
    /\ a.scan_id = b.scan_id
    /\ a.metric_key = b.metric_key
    /\ a.metric_source = b.metric_source

\* An INSERT without the ON CONFLICT clause: the row is added beside the one
\* already there.
upsert_appending(rows, row) == rows \cup {row}

\* INSERT ... ON CONFLICT (scan_id, metric_key, metric_source) DO UPDATE
upsert(rows, row) == {r \in rows : ~SameTriple(r, row)} \cup {row}

\* COMMIT of a transaction that wrote the rows `written`.
committed(rows, written) ==
    {r \in rows : \A w \in written : ~SameTriple(r, w)} \cup written

\* SELECT metric_key, metric_value, metric_source FROM scan_metadata
\* WHERE scan_id = scan
metadata_of(rows, scan) ==
    { Row(r.metric_key, r.metric_value, r.metric_source) :
        r \in {x \in rows : x.scan_id = scan} }

\* UPDATE project_scans SET final_score = score WHERE scan_id = scan
with_final_score(table, scan, score) ==
    [table EXCEPT ![scan].final_score = Some(score)]

-----------------------------------------------------------------------------
(* The ingestor: main, run_ingestion_workflow and the two source clients. *)

\* run_ingestion_workflow up to its for-loop: read the repositories file.
begin_workflow ==
    /\ Len(project_scans) < MaxScans
    /\ runs' = runs + 1
    /\ scan_id' = 0
    /\ \/ /\ pc' = "for"
          /\ repo' = 1
          /\ faults' = {}
          /\ UNCHANGED nfaults
       \/ \* FileNotFoundError: logged, the run returns
          /\ FailsFirst("run_ingestion_workflow", "repositories_file")
          /\ pc' = "wait"
          /\ UNCHANGED repo
    /\ UNCHANGED <<store_vars, final_score, escaped, client_vars, env_vars,
                   api_vars, score_vars>>

\* main: the run on startup, then the scheduler is set up.
main ==
    /\ pc = "main"
    /\ begin_workflow

\* A trigger that does not wait for the run in progress: the job is started
\* while the clients of a scan are still running.
run_pending_overlapping ==
    /\ pc \in {"wait", "join"}
    /\ begin_workflow

\* schedule.run_pending() in the scheduler loop, when the period has elapsed.
run_pending ==
    /\ pc = "wait"
    /\ begin_workflow

\* One pass of the for-loop that does not test what create_scan_record
\* returned: after a failed creation the clients are still launched.
create_scan_proceeding ==
    /\ pc = "for"
    /\ repo <= Len(Repositories)
    /\ Len(project_scans) < MaxScans
    /\ clock' = clock + 1
    /\ \/ /\ project_scans' = Append(project_scans,
                inserted_scan(project_scans, project_name_of(Repositories[repo]), clock'))
          /\ scan_id' = Len(project_scans) + 1
          /\ UNCHANGED nfaults
          /\ faults' = {}
       \/ /\ FailsFirst("create_scan_record", "query")
          /\ scan_id' = 0
          /\ UNCHANGED project_scans
    /\ pc' = "submit"
    /\ UNCHANGED <<scan_metadata, runs, repo, final_score, escaped, client_vars, env_vars,
                   api_vars, score_vars>>

\* One pass of the for-loop up to the scan's creation.
create_scan ==
    /\ pc = "for"
    /\ repo <= Len(Repositories)
    /\ Len(project_scans) < MaxScans
    /\ clock' = clock + 1
    /\ \/ \* the scan record is created
          /\ project_scans' = Append(project_scans,
                inserted_scan(project_scans, project_name_of(Repositories[repo]), clock'))
          /\ scan_id' = Len(project_scans) + 1
          /\ pc' = "submit"
          /\ UNCHANGED <<repo, nfaults>>
          /\ faults' = {}
       \/ \* get_db_connection returns None: continue (scan_id is not read
          \* again before it is assigned)
          /\ FailsFirst("run_ingestion_workflow", "connection")
          /\ scan_id' = 0
          /\ repo' = repo + 1
          /\ UNCHANGED <<project_scans, pc>>
       \/ \* create_scan_record catches psycopg2.Error, rolls back, returns None
          /\ FailsFirst("create_scan_record", "query")
          /\ scan_id' = 0
          /\ repo' = repo + 1
          /\ UNCHANGED <<project_scans, pc>>
    /\ UNCHANGED <<scan_metadata, runs, final_score, escaped, client_vars, env_vars,
                   api_vars, score_vars>>

\* The for-loop is exhausted: the run returns to main's scheduler loop.
end_workflow ==
    /\ pc = "for"
    /\ repo > Len(Repositories)
    /\ pc' = "wait"
    /\ UNCHANGED <<store_vars, runs, repo, scan_id, final_score, escaped, client_vars,
                   env_vars, fault_vars, api_vars, score_vars>>

\* executor.submit of the two clients.
submit ==
    /\ pc = "submit"
    /\ pc' = "join"
    /\ cpc' = [c \in Sources |-> "start"]
    /\ measures' = [c \in Sources |-> <<>>]
    /\ idx' = [c \in Sources |-> 1]
    /\ tx' = [c \in Sources |-> {}]
    /\ UNCHANGED <<store_vars, runs, repo, scan_id, final_score, escaped, env_vars,
                   fault_vars, api_vars, score_vars>>

\* A client up to its connection: the token check and get_db_connection.
collect_begin(c) ==
    /\ cpc[c] = "start"
    /\ \/ /\ ~tokens[c]
          /\ cpc' = [cpc EXCEPT ![c] = "skipped"]
          /\ NoFault
       \/ /\ tokens[c]
          /\ cpc' = [cpc EXCEPT ![c] = "fetch"]
          /\ NoFault
       \/ /\ tokens[c]
          /\ Fails(c, "connection")
          /\ cpc' = [cpc EXCEPT ![c] = "noconn"]
    /\ UNCHANGED <<store_vars, orch_vars, measures, idx, tx, env_vars, api_vars, score_vars>>

\* A client's request to its source: the HTTP call of collect_sonarqube_metrics,
\* the scorecard subprocess of collect_openssf_metrics.
collect_fetch(c) ==
    /\ cpc[c] = "fetch"
    /\ \/ \* the source answers
          /\ \/ /\ c = "sonarqube"
                /\ \E answer \in SonarAnswers :
                      measures' = [measures EXCEPT ![c] = sonarqube_pairs(answer)]
             \/ /\ c = "openssf"
                /\ \E scorecard_data \in ScorecardOutputs :
                      measures' = [measures EXCEPT ![c] = openssf_pairs(scorecard_data)]
          /\ cpc' = [cpc EXCEPT ![c] = "store"]
          /\ NoFault
       \/ \* requests.RequestException; a non-zero exit, JSONDecodeError or
          \* SubprocessError: logged, the connection is closed, the client returns
          /\ Fails(c, "source")
          /\ cpc' = [cpc EXCEPT ![c] = "failed"]
          /\ UNCHANGED measures
       \/ \* an exception the client does not catch (the scorecard binary is
          \* missing: FileNotFoundError; an answer of another shape)
          /\ Fails(c, "uncaught")
          /\ cpc' = [cpc EXCEPT ![c] = "raised"]
          /\ UNCHANGED measures
    /\ UNCHANGED <<store_vars, orch_vars, idx, tx, env_vars, api_vars, score_vars>>

\* One store_metadata_record call of a client's loop.
collect_store(c) ==
    /\ cpc[c] = "store"
    /\ idx[c] <= Len(measures[c])
    /\ \/ \* the row is written in the client's transaction
          /\ tx' = [tx EXCEPT ![c] =
                      upsert(tx[c], MetaRow(scan_id, measures[c][idx[c]][1],
                                            measures[c][idx[c]][2], c))]
          /\ idx' = [idx EXCEPT ![c] = idx[c] + 1]
          /\ UNCHANGED cpc
          /\ NoFault
       \/ \* psycopg2.Error: logged, conn.rollback() undoes the transaction so far
          /\ Fails(c, "query")
          /\ tx' = [tx EXCEPT ![c] = {}]
          /\ idx' = [idx EXCEPT ![c] = idx[c] + 1]
          /\ UNCHANGED cpc
       \/ \* KeyError on measure['metric'] / check['score']: not caught, the
          \* connection is closed without a commit
          /\ Fails(c, "uncaught")
          /\ tx' = [tx EXCEPT ![c] = {}]
          /\ cpc' = [cpc EXCEPT ![c] = "raised"]
          /\ UNCHANGED idx
    /\ UNCHANGED <<store_vars, orch_vars, measures, env_vars, api_vars, score_vars>>

\* conn.commit() at the end of a client, and the close in its finally.
collect_commit(c) ==
    /\ cpc[c] = "store"
    /\ idx[c] > Len(measures[c])
    /\ \/ /\ scan_metadata' = committed(scan_metadata, tx[c])
          /\ cpc' = [cpc EXCEPT ![c] = "committed"]
          /\ NoFault
       \/ \* psycopg2.Error from commit is not caught by the client
          /\ Fails(c, "commit")
          /\ cpc' = [cpc EXCEPT ![c] = "raised"]
          /\ UNCHANGED scan_metadata
    /\ tx' = [tx EXCEPT ![c] = {}]
    /\ UNCHANGED <<project_scans, clock, orch_vars, measures, idx, env_vars, api_vars,
                   score_vars>>

\* Leaving the with-block without waiting for the clients.
join_without_wait ==
    /\ pc = "join"
    /\ pc' = "calculate"
    /\ UNCHANGED <<store_vars, runs, repo, scan_id, final_score, escaped, client_vars,
                   env_vars, fault_vars, api_vars, score_vars>>

\* Leaving the with-block and re-raising what a client raised (future.result()).
join_reraising ==
    /\ pc = "join"
    /\ \A c \in Sources : cpc[c] \in Finished
    /\ IF \E c \in Sources : cpc[c] = "raised"
       THEN /\ pc' = "crashed"
            /\ escaped' = Exception("Exception", CHOOSE c \in Sources : cpc[c] = "raised")
       ELSE /\ pc' = "calculate"
            /\ UNCHANGED escaped
    /\ UNCHANGED <<store_vars, runs, repo, scan_id, final_score, client_vars,
                   env_vars, fault_vars, api_vars, score_vars>>

\* Leaving "with ThreadPoolExecutor(...)": shutdown(wait=True) blocks until both
\* clients have returned or raised; what a future raised is never retrieved.
join ==
    /\ pc = "join"
    /\ \A c \in Sources : cpc[c] \in Finished
    /\ pc' = "calculate"
    /\ UNCHANGED <<store_vars, runs, repo, scan_id, final_score, escaped, client_vars,
                   env_vars, fault_vars, api_vars, score_vars>>

\* final_score = calculate_final_score(scan_id)
calculate_final_score ==
    /\ pc = "calculate"
    /\ \/ \* the rows are read and the score computed
          /\ LET result == score_of_records(metadata_of(scan_metadata, scan_id),
                                            ingest_config)
             IN  IF result.exc = ""
                 THEN /\ final_score' = result.value
                      /\ pc' = "update"
                      /\ UNCHANGED escaped
                 ELSE \* load_scoring_config raises: nothing catches it up to main
                      /\ pc' = "crashed"
                      /\ escaped' = Exception(result.exc, "load_scoring_config")
                      /\ UNCHANGED final_score
          /\ NoFault
       \/ \* get_db_connection returns None: return 0.0
          /\ Fails("calculate_final_score", "connection")
          /\ final_score' = 0
          /\ pc' = "update"
          /\ UNCHANGED escaped
       \/ \* cursor.execute raises psycopg2.Error: try/finally without except
          /\ Fails("calculate_final_score", "query")
          /\ pc' = "crashed"
          /\ escaped' = Exception("psycopg2.Error", "calculate_final_score")
          /\ UNCHANGED final_score
    /\ UNCHANGED <<store_vars, runs, repo, scan_id, client_vars, env_vars, api_vars,
                   score_vars>>

\* The score write that ends a repository's cycle.
update_final_score ==
    /\ pc = "update"
    /\ \/ /\ project_scans' = with_final_score(project_scans, scan_id, final_score)
          /\ NoFault
       \/ \* get_db_connection returns None: the update is skipped
          /\ Fails("run_ingestion_workflow", "connection")
          /\ UNCHANGED project_scans
       \/ \* update_final_score catches psycopg2.Error and rolls back
          /\ Fails("update_final_score", "query")
          /\ UNCHANGED project_scans
    /\ pc' = "for"
    /\ repo' = repo + 1
    /\ UNCHANGED <<scan_metadata, clock, runs, scan_id, final_score, escaped, client_vars,
                   env_vars, api_vars, score_vars>>

-----------------------------------------------------------------------------
(* The API: GET /scan/{project_name}. *)

\* The latest scan of a project, scored or not.
latest_scan_of_any(table, project_name) ==
    LET rows == { table[i] : i \in { j \in 1..Len(table) :
                                        table[j].project_name = project_name } }
    IN  IF rows = {} THEN None
        ELSE CHOOSE r \in rows : \A o \in rows : o.scan_date <= r.scan_date

\* SELECT ... FROM project_scans WHERE project_name = %s AND final_score IS NOT
\* NULL ORDER BY scan_date DESC LIMIT 1, and fetchone(): a row or None.
latest_scan_of(table, project_name) ==
    LET rows == { table[i] : i \in { j \in 1..Len(table) :
                                        /\ table[j].project_name = project_name
                                        /\ table[j].final_score # None } }
    IN  IF rows = {} THEN None
        ELSE CHOOSE r \in rows : \A o \in rows : o.scan_date <= r.scan_date

\* The metric keys of the model in the order Python compares strings.
KeyOrder == <<"Maintained", "coverage", "overall_score">>

KeyRank(key) == CHOOSE i \in 1..Len(KeyOrder) : KeyOrder[i] = key

RECURSIVE sorted_by_key(_)
\* sorted(entries, key=lambda x: x['metric_key'])
sorted_by_key(entries) ==
    IF entries = {} THEN <<>>
    ELSE LET first == CHOOSE e \in entries :
                          \A o \in entries : KeyRank(e.metric_key) <= KeyRank(o.metric_key)
         IN  <<first>> \o sorted_by_key(entries \ {first})

\* grouped_metadata: per source among the rows, its entries sorted by key.
\* score comes from the LEFT JOIN with metadata_scores, a table nothing fills.
grouped_metadata(metadata_records) ==
    [source \in {r.metric_source : r \in metadata_records} |->
        sorted_by_key({ [metric_key |-> r.metric_key, metric_value |-> r.metric_value,
                         score |-> None] :
                          r \in {x \in metadata_records : x.metric_source = source} })]

\* latest_scan['scoring_formula']
scoring_formula(scoring_config) ==
    IF scoring_config # None
    THEN [description |-> scoring_config.description,
          calculation_logic |-> scoring_config.calculation_logic,
          metrics |-> scoring_config.metrics]
    ELSE [error |-> "Scoring configuration not found."]

HTTPException(status_code, detail) == [status |-> status_code, detail |-> detail]

\* get_latest_scan up to the end of its first query.
get_latest_scan(project_name) ==
    /\ rpc = "idle"
    /\ rproject' = project_name
    /\ \/ /\ LET row == latest_scan_of(project_scans, project_name)
             IN  IF row = None
                 THEN /\ response' = HTTPException(404, "Project not found or no scans available.")
                      /\ UNCHANGED <<rpc, latest_scan>>
                 ELSE /\ latest_scan' = row
                      /\ rpc' = "metadata"
                      /\ response' = None
          /\ NoFault
       \/ \* get_db_connection raises HTTPException(500)
          /\ ApiFails
          /\ response' = HTTPException(500, "Database connection failed.")
          /\ UNCHANGED <<rpc, latest_scan>>
       \/ \* psycopg2.Error in the query
          /\ ApiFails
          /\ response' = HTTPException(500, "An error occurred while fetching scan results.")
          /\ UNCHANGED <<rpc, latest_scan>>
    /\ UNCHANGED <<store_vars, orch_vars, client_vars, env_vars, score_vars>>

\* The rest of get_latest_scan with a configuration it insists on: a missing
\* scoring configuration is answered as a server error.
get_latest_scan_metadata_strict ==
    /\ rpc = "metadata"
    /\ rpc' = "idle"
    /\ IF api_config = None
       THEN response' = HTTPException(500, "Scoring configuration not found.")
       ELSE LET metadata_records == metadata_of(scan_metadata, latest_scan.scan_id)
            IN  response' =
                  [status |-> 200,
                   body |-> latest_scan
                            @@ [max_score |-> response_max_score(api_config, metadata_records),
                                scoring_formula |-> scoring_formula(api_config),
                                metadata |-> grouped_metadata(metadata_records)]]
    /\ NoFault
    /\ UNCHANGED <<store_vars, orch_vars, client_vars, env_vars, rproject, latest_scan,
                   score_vars>>

\* The rest of get_latest_scan: the metadata query, the grouping, the scoring
\* formula and the response.
get_latest_scan_metadata ==
    /\ rpc = "metadata"
    /\ rpc' = "idle"
    /\ \/ /\ LET metadata_records == metadata_of(scan_metadata, latest_scan.scan_id)
             IN  response' =
                   [status |-> 200,
                    body |-> latest_scan
                             @@ [max_score |-> response_max_score(api_config, metadata_records),
                                 scoring_formula |-> scoring_formula(api_config),
                                 metadata |-> grouped_metadata(metadata_records)]]
          /\ NoFault
       \/ \* psycopg2.Error in the query
          /\ ApiFails
          /\ response' = HTTPException(500, "An error occurred while fetching scan results.")
    /\ UNCHANGED <<store_vars, orch_vars, client_vars, env_vars, rproject, latest_scan,
                   score_vars>>

-----------------------------------------------------------------------------
(* The system: the ingestor and the API on one store. *)

Init ==
    /\ SystemInit
    /\ tokens \in [Sources -> BOOLEAN]
    /\ ingest_config \in DeployedConfigs
    /\ api_config \in DeployedConfigs
    /\ sc_config = None
    /\ sc_records = {}
    /\ ScoreIdle

Next ==
    \/ main
    \/ run_pending
    \/ create_scan
    \/ end_workflow
    \/ submit
    \/ \E c \in Sources : collect_begin(c)
    \/ \E c \in Sources : collect_fetch(c)
    \/ \E c \in Sources : collect_store(c)
    \/ \E c \in Sources : collect_commit(c)
    \/ join
    \/ calculate_final_score
    \/ update_final_score
    \/ \E p \in Projects : get_latest_scan(p)
    \/ get_latest_scan_metadata

Spec == Init /\ [][Next]_vars

-----------------------------------------------------------------------------
(* Claims about the ingestor and the API, checked under Spec. *)

\* The thread states in which a source client has ended without its metrics.
FailedStates == {"skipped", "noconn", "failed", "raised"}

\* Both clients of the current scan have ended and the workflow is past them.
PastCollection ==
    /\ scan_id # 0
    /\ pc \in {"calculate", "update", "for", "wait", "crashed"}

\* The cycle of the current scan has ended.
CycleOver == scan_id # 0 /\ pc \in {"for", "wait"}

\* The value of the last pair with this key among the pairs a client stored.
LastValue(pairs, key) ==
    pairs[CHOOSE i \in 1..Len(pairs) :
            /\ pairs[i][1] = key
            /\ \A j \in (i + 1)..Len(pairs) : pairs[j][1] # key][2]

\* The rows a client that stored all its pairs leaves for the scan.
RowsOf(c) ==
    { Row(measures[c][i][1], LastValue(measures[c], measures[c][i][1]), c) :
        i \in 1..Len(measures[c]) }

\* In the current cycle client c failed (it returned early or raised), client
\* d succeeded, nothing else failed and the configuration can be loaded.
OneSourceFailed(c, d) ==
    /\ PastCollection
    /\ c # d
    /\ cpc[c] \in FailedStates
    /\ cpc[d] = "committed"
    /\ \A f \in faults : f.in = c
    /\ ingest_config # None

\* C1: when one client fails and the other succeeds, the other's rows are
\* the scan's rows, the score computed and written is the score of those rows
\* alone, and no exception leaves run_ingestion_workflow; an exception raised
\* in a client never leaves it.
C1_OneSourceFailureIsIsolated ==
    /\ escaped # None => escaped.from \notin Sources
    /\ \A c \in Sources : \A d \in Sources :
          OneSourceFailed(c, d) =>
              /\ pc # "crashed"
              /\ metadata_of(scan_metadata, scan_id) = RowsOf(d)
              /\ pc = "update" =>
                    final_score = score_of_records(RowsOf(d), ingest_config).value
              /\ CycleOver =>
                    project_scans[scan_id].final_score =
                        Some(score_of_records(RowsOf(d), ingest_config).value)

\* C1 witness: the cycle is over, sonarqube raised, openssf committed, and the
\* scan holds the score of the openssf rows alone, 4.0.
C1_Witness ==
    /\ OneSourceFailed("sonarqube", "openssf")
    /\ cpc["sonarqube"] = "raised"
    /\ CycleOver
    /\ project_scans[scan_id].final_score = Some(4000)

\* C2: the score computation and the score write never start while a client
\* of the scan is still running.
C2_ClientsJoinedBeforeScoring ==
    pc \in {"calculate", "update"} => \A c \in Sources : cpc[c] \in Finished

\* C2 witness: the score computation is about to start, one client having
\* raised and the other committed.
C2_Witness ==
    /\ pc = "calculate"
    /\ cpc["openssf"] = "raised"
    /\ cpc["sonarqube"] = "committed"

\* The scored scans of a project in the store.
ScoredScansOf(project) ==
    { project_scans[i] : i \in { j \in 1..Len(project_scans) :
                                    /\ project_scans[j].project_name = project
                                    /\ project_scans[j].final_score # None } }

\* C3: the scan a request selects is a scored scan of the requested project
\* with the greatest scan_date among them, whatever the ingestor is doing; a
\* request that meets no store failure answers 404 exactly when the project
\* has no scored scan, and a response never shows a scan without a score.
C3_LatestScoredScanOrNotFound ==
    /\ [](rpc = "metadata" =>
            /\ latest_scan.project_name = rproject
            /\ project_scans[latest_scan.scan_id].final_score # None)
    /\ []((response # None /\ response.status = 200) =>
            /\ response.body.project_name = rproject
            /\ response.body.final_score # None)
    /\ [][ (rpc = "idle" /\ api_vars' # api_vars) =>
             IF rpc' = "metadata"
             THEN /\ latest_scan' \in ScoredScansOf(rproject')
                  /\ \A o \in ScoredScansOf(rproject') :
                        o.scan_date <= latest_scan'.scan_date
             ELSE /\ nfaults' = nfaults =>
                        /\ response'.status = 404
                        /\ ScoredScansOf(rproject') = {}
                  /\ nfaults' # nfaults => response'.status = 500 ]_vars

\* C3 witness: a request has selected a scored scan of its project while a
\* newer scan of the same project is still without a score.
C3_Witness ==
    /\ rpc = "metadata"
    /\ \E i \in 1..Len(project_scans) :
          /\ project_scans[i].project_name = rproject
          /\ project_scans[i].scan_date > latest_scan.scan_date
          /\ project_scans[i].final_score = None

\* C4: a failed store connection at any step of a repository's cycle leaves
\* the scan without a final_score.
C4_ConnectionFailureLeavesNoScore ==
    (scan_id # 0 /\ \E f \in faults : f.kind = "connection") =>
        project_scans[scan_id].final_score = None

\* C5: when the ingestor's scoring configuration cannot be loaded (and the
\* store does not fail), nothing propagates out of the workflow and the score
\* computed is the fallback 0, whether or not the scan has rows.
C5_MissingConfigScoresZero ==
    (ingest_config = None /\ nfaults = 0) =>
        /\ pc # "crashed"
        /\ pc = "update" => final_score = 0

\* C6: a store error in a repository's cycle never ends the run or the
\* scheduler loop: no psycopg2.Error leaves run_ingestion_workflow.
C6_StoreErrorIsContained ==
    pc = "crashed" => escaped.exc # "psycopg2.Error"

-----------------------------------------------------------------------------
(* Claims about the scan's life cycle, the store and the clients' failures. *)

\* The kinds of failure that are failures of the store.
StoreFaultKinds == {"connection", "query", "commit"}

\* The current cycle has met no failure of the store.
NoStoreFault == \A f \in faults : f.kind \notin StoreFaultKinds

\* The cycle of the current scan has ended: the loop went on, the run
\* returned, or an exception ended the process.
CycleEnded == scan_id # 0 /\ pc \in {"for", "wait", "crashed"}

\* C11: a scan's final_score is written exactly once, by the score update that
\* ends the scan's cycle: a scan whose cycle ended without a store failure has
\* its score; a score once written never changes; only the update step of the
\* current scan writes one; and no scan is deleted or otherwise altered.
C11_ScoreWrittenExactlyOnce ==
    /\ []((CycleEnded /\ NoStoreFault) => project_scans[scan_id].final_score # None)
    /\ [][ /\ Len(project_scans') >= Len(project_scans)
           /\ \A i \in 1..Len(project_scans) :
                 /\ project_scans'[i].scan_id = project_scans[i].scan_id
                 /\ project_scans'[i].project_name = project_scans[i].project_name
                 /\ project_scans'[i].scan_date = project_scans[i].scan_date
                 /\ project_scans[i].final_score # None =>
                       project_scans'[i].final_score = project_scans[i].final_score
                 /\ project_scans'[i].final_score # project_scans[i].final_score =>
                       /\ i = scan_id
                       /\ pc = "update"
                       /\ pc' = "for" ]_vars

\* The rows of a scan in the store, as the API's metadata query returns them.
StoredRows(scan) ==
    { [metric_key |-> r.metric_key, metric_value |-> r.metric_value,
       metric_source |-> r.metric_source] :
        r \in {x \in scan_metadata : x.scan_id = scan} }

\* C12: when the API cannot load its scoring configuration, a request for a
\* project with a scored scan that meets no store failure still selects the
\* scan and answers 200 with the scan's stored final_score, its grouped
\* metadata, max_score 0 and the degraded scoring_formula; never 404 or 500.
C12_MissingConfigDegradesResponse ==
    [][ (api_config = None /\ api_vars' # api_vars /\ nfaults' = nfaults) =>
          /\ (rpc = "idle" /\ ScoredScansOf(rproject') # {}) =>
                /\ rpc' = "metadata"
                /\ response' = None
          /\ rpc = "metadata" =>
                /\ response'.status = 200
                /\ response'.body.scan_id = latest_scan.scan_id
                /\ response'.body.project_name = rproject
                /\ response'.body.final_score = latest_scan.final_score
                /\ response'.body.final_score # None
                /\ response'.body.max_score = 0
                /\ response'.body.scoring_formula =
                      [error |-> "Scoring configuration not found."]
                /\ response'.body.metadata =
                      grouped_metadata(StoredRows(latest_scan.scan_id)) ]_vars

\* C12 witness: without a configuration the API has answered 200 for a scan
\* that has metadata, with max_score 0 and the degraded formula.
C12_Witness ==
    /\ api_config = None
    /\ response # None
    /\ response.status = 200
    /\ response.body.max_score = 0
    /\ "error" \in DOMAIN response.body.scoring_formula
    /\ DOMAIN response.body.metadata = Sources
    /\ response.body.final_score = Some(19000)

\* The rows of a set that carry a source's label.
LabelledRows(rows, source) == {r \in rows : r.metric_source = source}

\* No two rows of a set have the same (scan_id, metric_key, metric_source).
UniqueTriples(rows) ==
    \A a \in rows : \A b \in rows : SameTriple(a, b) => a = b

\* Client c has committed the pairs it fetched, none of its stores failing.
StoredAll(c) ==
    /\ cpc[c] = "committed"
    /\ pc = "join"
    /\ \A f \in faults : f.in # c

\* C13: the store and every client's transaction hold at most one row per
\* (scan_id, metric_key, metric_source); a client that stored a key twice
\* leaves one row, holding the later value; a client writes only rows of its
\* own label, and the rows of a label change only when that label's client
\* commits.
C13_UpsertKeepsOneRowPerTriple ==
    /\ [](/\ UniqueTriples(scan_metadata)
          /\ \A c \in Sources :
                /\ UniqueTriples(tx[c])
                /\ \A r \in tx[c] : r.metric_source = c /\ r.scan_id = scan_id
                /\ StoredAll(c) =>
                      LabelledRows(StoredRows(scan_id), c) = RowsOf(c))
    /\ [][ \A c \in Sources :
             LabelledRows(scan_metadata', c) # LabelledRows(scan_metadata, c) =>
                 /\ cpc[c] = "store"
                 /\ cpc'[c] = "committed"
                 /\ LabelledRows(scan_metadata, c) \subseteq LabelledRows(scan_metadata', c) ]_vars

\* C13 witness: sonarqube stored coverage twice, 0.125 and then 7.5, while
\* openssf committed its rows; the scan has the one coverage row, 7.5.
C13_Witness ==
    /\ StoredAll("sonarqube")
    /\ cpc["openssf"] = "committed"
    /\ Len(measures["sonarqube"]) = 2
    /\ LabelledRows(StoredRows(scan_id), "sonarqube") =
          {Row("coverage", <<"7", ".", "5">>, "sonarqube")}
    /\ LabelledRows(StoredRows(scan_id), "openssf") # {}

\* Client c met a failure of its source in the current cycle: the transport,
\* the exit status, or the parsing of the answer.
SourceFailed(c) ==
    /\ scan_id # 0
    /\ \E f \in faults : f.in = c /\ f.kind \in {"source", "uncaught"}

\* C14: a client that meets a failure of its source does not raise: it has
\* returned normally, and the scan has no row with the client's label.
C14_SourceFailureIsAbsorbed ==
    \A c \in Sources :
        SourceFailed(c) =>
            /\ cpc[c] # "raised"
            /\ cpc[c] \in Finished => cpc[c] = "failed"
            /\ LabelledRows(StoredRows(scan_id), c) = {}

\* Both clients of the current scan have ended, the scan has no row, and
\* nothing failed in the cycle but the clients.
NothingCollected ==
    /\ PastCollection
    /\ StoredRows(scan_id) = {}
    /\ \A f \in faults : f.in \in Sources

\* C15: a scan that ends collection without any row is scored 0 without an
\* error, with or without a scoring configuration: nothing propagates, the
\* score computed is 0, and 0 is the final_score written at the cycle's end.
C15_NoRecordsScoresZero ==
    NothingCollected =>
        /\ pc # "crashed"
        /\ pc = "update" => final_score = 0
        /\ CycleOver => project_scans[scan_id].final_score = Some(0)

\* C15 witness: a cycle is over in which one client failed at its source and
\* the other was skipped, no configuration is deployed, and the scan holds 0.
C15_Witness ==
    /\ NothingCollected
    /\ CycleOver
    /\ ingest_config = None
    /\ \E c \in Sources : cpc[c] = "failed"
    /\ project_scans[scan_id].final_score = Some(0)

\* The steps of a repository's cycle that follow the scan's creation.
AfterCreation == {"submit", "join", "calculate", "update"}

\* C16: a pass of the loop in which the scan's creation fails leaves both
\* tables as they were, launches no client, computes no score and moves to the
\* next repository; clients run and scores are computed only for a scan that
\* was created for the repository at hand.
C16_FailedCreationSkipsRepository ==
    /\ [](pc \in AfterCreation =>
            /\ scan_id = Len(project_scans)
            /\ scan_id # 0
            /\ project_scans[scan_id].project_name = project_name_of(Repositories[repo]))
    /\ [][ (pc = "for" /\ clock' # clock /\ nfaults' # nfaults) =>
             /\ project_scans' = project_scans
             /\ scan_metadata' = scan_metadata
             /\ client_vars' = client_vars
             /\ final_score' = final_score
             /\ pc' = "for"
             /\ repo' = repo + 1 ]_vars

\* C16 witness: the creation failed for the first repository, and the run has
\* created the scan of the second, the only scan in the store.
C16_Witness ==
    /\ pc = "submit"
    /\ runs = 1
    /\ repo = 2
    /\ nfaults = 1
    /\ Len(project_scans) = 1
    /\ project_scans[1].project_name = "beta"

\* The thread states in which a source client is running.
Running == {"start", "fetch", "store"}

\* A run of the orchestrator is in progress.
RunActive == pc \in {"for"} \cup AfterCreation

\* C17: clients run only inside the join of the one repository being
\* processed, and only on that repository's scan, the newest one; a run starts
\* only when no run is active and no client is running, at the first
\* repository; within a run the repositories are taken one by one in list
\* order, each new scan being the scan of the repository at hand; and a trigger
\* that falls due during a run is neither served before the run has returned
\* nor lost: once the run has returned the next run can start.
C17_OneRunOneRepositoryAtATime ==
    /\ []((\E c \in Sources : cpc[c] \in Running) =>
            /\ pc = "join"
            /\ scan_id = Len(project_scans)
            /\ \A c \in Sources : \A r \in tx[c] : r.scan_id = scan_id)
    /\ []((pc = "wait" /\ Len(project_scans) < MaxScans) => ENABLED run_pending)
    /\ [][ /\ runs' # runs =>
                /\ ~RunActive
                /\ \A c \in Sources : cpc[c] \notin Running
                /\ runs' = runs + 1
                /\ pc' = "for" => repo' = 1
           /\ (repo' # repo /\ runs' = runs) => (RunActive /\ repo' = repo + 1)
           /\ Len(project_scans') # Len(project_scans) =>
                /\ Len(project_scans') = Len(project_scans) + 1
                /\ pc = "for"
                /\ project_scans'[Len(project_scans')].project_name =
                      project_name_of(Repositories[repo])
                /\ \A i \in 1..Len(project_scans) :
                      project_scans[i].scan_date < project_scans'[Len(project_scans')].scan_date
           /\ (RunActive /\ ~RunActive') => (pc' = "wait" \/ pc' = "crashed") ]_vars

\* C17 witness: in the second run the clients of the third scan are running,
\* the scans of the first run being scored.
C17_Witness ==
    /\ runs = 2
    /\ pc = "join"
    /\ scan_id = 3
    /\ cpc["sonarqube"] = "store"
    /\ cpc["openssf"] = "fetch"
    /\ project_scans[1].final_score # None
    /\ project_scans[2].final_score # None

-----------------------------------------------------------------------------
(* A claim about the parsing of stored values, checked under SpecScore. *)

\* The rows whose stored value is not the text of a number.
Unparseable(records) == {r \in records : ~ParseFloat(r.metric_value).ok}

\* The definitions of a configuration that a row matches by source and key.
DefsMatching(config, r) ==
    { i \in 1..Len(config.metrics) :
        /\ config.metrics[i].source = r.metric_source
        /\ config.metrics[i].key = r.metric_key }

\* C18: calculate_final_score treats a row whose value does not parse as if
\* the row were absent: nothing is raised, every definition matching such a
\* row is skipped, and the score is the score of the other rows alone.
C18_UnparseableValueIsAbsent ==
    (sc_out.op = "final" /\ sc_config # None) =>
        /\ sc_out.exc = ""
        /\ \A r \in Unparseable(sc_records) : \A i \in DefsMatching(sc_config, r) :
              /\ skipped(sc_records, sc_config.metrics[i])
              /\ total_score(sc_records, <<sc_config.metrics[i]>>) = 0
        /\ sc_out.value =
              Round2(total_score(sc_records \ Unparseable(sc_records), sc_config.metrics))

\* C18 witness: a score above 0 was computed from rows of which the coverage
\* row reads "abc", under a configuration with an inverted coverage definition.
C18_Witness ==
    /\ sc_out.op = "final"
    /\ sc_out.value > 0
    /\ Row("coverage", <<"a", "b", "c">>, "sonarqube") \in sc_records
    /\ sc_records \ Unparseable(sc_records) # {}
    /\ \E i \in 1..Len(sc_config.metrics) :
          /\ sc_config.metrics[i].key = "coverage"
          /\ sc_config.metrics[i].type = "inverted_scaled"

-----------------------------------------------------------------------------
(* Claims about transactions and about the rows of a scored scan, checked
   under Spec. *)

\* C19: a row that store_metadata_record has written is persisted whatever the
\* client does next: from one step to the next, every row written in a
\* client's transaction is still held by it or is in the store.
C19_EachStoreIsItsOwnTransaction ==
    [][ \A c \in Sources : \A r \in tx[c] :
          \E kept \in tx'[c] \cup scan_metadata' : SameTriple(kept, r) ]_vars

\* C20: from the moment calculate_final_score reads them, the rows of a scan
\* never change: no step changes the rows of a scan that is being scored or
\* has a final_score; the score computed and written for the current scan is
\* the score of the rows the store holds for it, the rows that were read; and
\* the metadata of every successful response is the grouping of the rows the
\* store holds for the scan, whatever the ingestor has done since.
C20_ScoredScanRowsAreFrozen ==
    /\ [][ \A i \in 1..Len(project_scans) :
             (\/ project_scans[i].final_score # None
              \/ i = scan_id /\ pc \in {"calculate", "update"}) =>
                 StoredRows(i)' = StoredRows(i) ]_vars
    /\ [](scan_id # 0 =>
            /\ pc = "update" =>
                  final_score = score_of_records(StoredRows(scan_id), ingest_config).value
            /\ (CycleOver /\ project_scans[scan_id].final_score # None) =>
                  project_scans[scan_id].final_score =
                      Some(score_of_records(StoredRows(scan_id), ingest_config).value))
    /\ []((response # None /\ response.status = 200) =>
            response.body.metadata = grouped_metadata(StoredRows(response.body.scan_id)))

=============================================================================
